---- MODULE Spec2Model ----
(***************************************************************************)
(* Vocabulary API server: the Words collection and the request handlers    *)
(* of the Express application (postWords, the counter mutators,            *)
(* getWordsByType).  JavaScript runs each handler atomically between two   *)
(* awaits; every awaited store operation is one atomic step of the store.  *)
(* Text is modelled as a sequence of one-character strings so that         *)
(* toLowerCase, RegExp matching, parseInt and string ordering are computed *)
(* character by character.                                                 *)
(***************************************************************************)
EXTENDS Integers, Sequences, FiniteSets, TLC

VARIABLES
    env,        \* process.env: the shared secrets PASSWORD and TOKEN
    job,        \* the offline enrichment pipeline (talkWithAI, the response parser)
    store,      \* the Words collection: sequence of documents, _id = position
    clock,      \* the store's timestamp source for createdAt
    pc,         \* per request slot: where its handler is suspended
    req,        \* per request slot: the request being handled
    loc,        \* per request slot: the handler's local variables
    resp,       \* per request slot: the response sent (status 0 = none yet)
    started,    \* number of requests received so far
    created,    \* history: each document as it was when it entered the collection
    alone,      \* history: the slot's request has overlapped no other request
    okCount     \* history: per (_id, operation) the number of 200 responses

vars == <<store, created, clock, pc, req, loc, resp, started, alone, okCount, job, env>>

-----------------------------------------------------------------------------
(* Bounds of the model *)

MaxRecords == 3
MaxRequests == 2
MaxCalls == 3
MaxBatches == 3

Reqs == {"r1", "r2"}

-----------------------------------------------------------------------------
(* Text *)

Chars(s) == [i \in 1..Len(s) |-> SubSeq(s, i, i)]

Uppers == Chars("ABCDEFGHIJKLMNOPQRSTUVWXYZ")
Lowers == Chars("abcdefghijklmnopqrstuvwxyz")

\* the characters of the model in code-unit order
CodeOrder == Chars(" +-.0123456789ABCDEFGHIJKLMNOPQRSTUVWXYZ_abcdefghijklmnopqrstuvwxyz")

CharCode(c) == CHOOSE i \in 1..Len(CodeOrder) : CodeOrder[i] = c

LowerChar(c) ==
    IF \E i \in 1..Len(Uppers) : Uppers[i] = c
    THEN Lowers[CHOOSE i \in 1..Len(Uppers) : Uppers[i] = c]
    ELSE c

toLowerCase(s) == [i \in 1..Len(s) |-> LowerChar(s[i])]

\* binary (code unit) string order, the store's default collation
RECURSIVE StrLess(_, _)
StrLess(a, b) ==
    IF Len(b) = 0 THEN FALSE
    ELSE IF Len(a) = 0 THEN TRUE
    ELSE IF a[1] # b[1] THEN CharCode(a[1]) < CharCode(b[1])
    ELSE StrLess(Tail(a), Tail(b))

Includes(seq, x) == \E i \in 1..Len(seq) : seq[i] = x

LowerNames(seq) == [i \in 1..Len(seq) |-> toLowerCase(seq[i].word)]

-----------------------------------------------------------------------------
(* new RegExp(`^${name}$`, "i") over names made of letters, "." and "+" *)

\* the pattern compiles: a "+" needs something to repeat
RegExpCompiles(name) ==
    \A i \in 1..Len(name) :
        name[i] = "+" => (i > 1 /\ name[i - 1] # "+")

\* one pattern character against one subject character, flag "i"
CharMatches(p, c) == p = "." \/ LowerChar(p) = LowerChar(c)

RECURSIVE MatchFrom(_, _, _, _)
MatchFrom(p, i, s, j) ==
    IF i > Len(p) THEN j > Len(s)
    ELSE IF i < Len(p) /\ p[i + 1] = "+"
    THEN \E k \in 1..(Len(s) - j + 1) :
            /\ \A m \in j..(j + k - 1) : CharMatches(p[i], s[m])
            /\ MatchFrom(p, i + 2, s, j + k)
    ELSE /\ j <= Len(s)
         /\ CharMatches(p[i], s[j])
         /\ MatchFrom(p, i + 1, s, j + 1)

\* /^name$/i.test(s)
RegExpTest(name, s) == MatchFrom(name, 1, s, 1)

-----------------------------------------------------------------------------
(* The Words collection *)

DefaultOpened == 5
DefaultRevised == 0

Ids == 1..MaxRecords

\* a document as insertMany creates it from a candidate that carries a word
NewDoc(w, id, now) ==
    [_id |-> id, word |-> w.word,
     no_of_times_opened |-> DefaultOpened,
     no_of_times_revised |-> DefaultRevised,
     mnemonic |-> <<>>,
     createdAt |-> now]

\* an insert under a unique case-insensitive index on word: a document whose
\* lowercased word the collection already holds is not written
RECURSIVE insertManyUnique(_, _, _)
insertManyUnique(st, docs, now) ==
    IF Len(docs) = 0 THEN st
    ELSE IF \E i \in DOMAIN st : toLowerCase(st[i].word) = toLowerCase(docs[1].word)
    THEN insertManyUnique(st, Tail(docs), now)
    ELSE insertManyUnique(Append(st, NewDoc(docs[1], Len(st) + 1, now)), Tail(docs), now)

\* Word.insertMany(docs): one batched write, ids in insertion order
insertMany(st, docs, now) ==
    st \o [i \in 1..Len(docs) |-> NewDoc(docs[i], Len(st) + i, now)]

\* Word.find({ word: { $in: [/^name$/i, ...] } }), in natural order
findByNames(st, names) ==
    SelectSeq(st, LAMBDA d : \E i \in 1..Len(names) : RegExpTest(names[i], d.word))

\* a read-then-write on a stale copy: the delta lands on the value the
\* document had when it entered the collection
findByIdAndUpdateStale(st, oid, upd) ==
    IF oid \in DOMAIN st
    THEN [st EXCEPT ![oid][upd.field] = created[oid][upd.field] + upd.by]
    ELSE st

\* a decrement that stops at zero
IncClamped(value, by) == IF value + by < 0 THEN 0 ELSE value + by

\* $inc on a Number field: plain addition, the schema sets no minimum
Inc(value, by) == value + by

\* { $inc: { field: by } } applied to the document with this _id; no upsert
findByIdAndUpdate(st, oid, upd) ==
    IF oid \in DOMAIN st
    THEN [st EXCEPT ![oid][upd.field] = Inc(@, upd.by)]
    ELSE st

\* the position of the first document whose word the pattern of name
\* matches, 0 if there is none
FirstMatch(st, name) ==
    IF \E i \in DOMAIN st : RegExpTest(name, st[i].word)
    THEN CHOOSE i \in DOMAIN st :
            /\ RegExpTest(name, st[i].word)
            /\ \A j \in 1..(i - 1) : ~RegExpTest(name, st[j].word)
    ELSE 0

\* the same update with upsert: true
findOneAndUpdateUpsert(st, name, mnemonic) ==
    IF FirstMatch(st, name) = 0
    THEN Append(st, [NewDoc([word |-> name], Len(st) + 1, 0) EXCEPT !.mnemonic = mnemonic])
    ELSE [st EXCEPT ![FirstMatch(st, name)].mnemonic = mnemonic]

\* Word.findOneAndUpdate({ word: { $regex: /^name$/i } }, fields, { new: true }):
\* the first match takes the enrichment fields; no upsert
findOneAndUpdate(st, name, mnemonic) ==
    IF FirstMatch(st, name) = 0 THEN st
    ELSE [st EXCEPT ![FirstMatch(st, name)].mnemonic = mnemonic]

\* option new: false, the document as it was before the update
ReturnedDocumentOld(before, after, oid) == before[oid]

\* option new: true, the call resolves to the document after the update
ReturnedDocument(before, after, oid) == after[oid]

-----------------------------------------------------------------------------
(* Requests, locals and responses *)

WordPool == {Chars("a"), Chars("A"), Chars("a+")}

\* a candidate entry of a batch; an entry may lack its word field
Candidates == {[hasWord |-> TRUE, word |-> w] : w \in WordPool}

NoWordEntry == [hasWord |-> FALSE, word |-> <<>>]

\* req.body.words when it is an array: batches of at most two entries; an
\* entry without a word, if any, comes last
Batches ==
    LET full == UNION {[1..n -> Candidates] : n \in 0..2}
    IN  full \cup {Append(b, NoWordEntry) : b \in {x \in full : Len(x) < 2}}

\* req.body.id: absent, not an ObjectId, accepted by isValid but not castable,
\* or the ObjectId of position oid
IdInputs ==
    {[kind |-> k, oid |-> 0] : k \in {"missing", "malformed", "uncastable"}}
        \cup {[kind |-> "oid", oid |-> i] : i \in Ids}

ObjectIdIsValid(id) == id.kind \in {"uncastable", "oid"}

CounterOps == {"increase_open_count", "decrease_open_count", "increase_revision_count"}

\* a JavaScript value that is undefined or a string
Undefined == [defined |-> FALSE, text |-> <<>>]

String(text) == [defined |-> TRUE, text |-> text]

NoReq ==
    [n |-> 0, password |-> Undefined, op |-> "none", isArray |-> FALSE, words |-> <<>>,
     id |-> [kind |-> "missing", oid |-> 0],
     limit |-> <<>>, page |-> <<>>, type |-> <<>>, word |-> <<>>]

NoLoc ==
    [wordNamesLower |-> <<>>, existingWordNamesLower |-> <<>>, uniqueWords |-> <<>>,
     limit |-> 0, page |-> 0, skip |-> 0, type |-> <<>>,
     totalCount |-> 0, totalPages |-> 0, sortCriteria |-> <<>>,
     storeOps |-> 0, failures |-> 0]

NoResp ==
    [status |-> 0, message |-> "", addedWords |-> <<>>, skippedWords |-> <<>>,
     wordId |-> 0, word |-> <<>>, no_of_times_opened |-> 0, no_of_times_revised |-> 0,
     totalCount |-> 0, totalPages |-> 0, currentPage |-> 0, limit |-> 0,
     type |-> <<>>, words |-> <<>>,
     totalTypes |-> 0, sortingTypes |-> <<>>, count |-> 0,
     token |-> Undefined]

Reply(status, message) == [NoResp EXCEPT !.status = status, !.message = message]

InFlight(r) == pc[r] \notin {"idle", "done"}

\* a request arrives on a free slot
Accept(r, q, cap) ==
    /\ ~InFlight(r)
    /\ started < cap
    /\ started' = started + 1
    /\ req' = [req EXCEPT ![r] = [q EXCEPT !.n = started + 1]]
    /\ alone' = [x \in Reqs |->
                    IF x = r THEN \A y \in Reqs \ {r} : ~InFlight(y)
                    ELSE IF InFlight(x) THEN FALSE ELSE alone[x]]

\* the handler answers and ends
Finish(r, locals, answer) ==
    /\ pc' = [pc EXCEPT ![r] = "done"]
    /\ loc' = [loc EXCEPT ![r] = locals]
    /\ resp' = [resp EXCEPT ![r] = answer]

\* the handler suspends on an awaited store operation
Await(r, at, locals) ==
    /\ pc' = [pc EXCEPT ![r] = at]
    /\ loc' = [loc EXCEPT ![r] = [locals EXCEPT !.storeOps = @ + 1]]
    /\ resp' = [resp EXCEPT ![r] = NoResp]

-----------------------------------------------------------------------------
(* POST /api/v1/increase_open_count, /decrease_open_count,                 *)
(* /increase_revision_count                                                *)

IncreaseOpenCountUpdate == [field |-> "no_of_times_opened", by |-> 1]
DecreaseOpenCountUpdate == [field |-> "no_of_times_opened", by |-> -1]
\* the revision route with the sign of the decrease route
RevisionCountUpdateDown == [field |-> "no_of_times_revised", by |-> -1]

IncreaseRevisionCountUpdate == [field |-> "no_of_times_revised", by |-> 1]

\* the revision route carrying the update of the route it was copied from
UpdateOfCopied(name) ==
    IF name = "decrease_open_count" THEN DecreaseOpenCountUpdate
    ELSE IncreaseOpenCountUpdate

UpdateOf(name) ==
    CASE name = "increase_open_count" -> IncreaseOpenCountUpdate
      [] name = "decrease_open_count" -> DecreaseOpenCountUpdate
      [] name = "increase_revision_count" -> IncreaseRevisionCountUpdate

SuccessMessage(name) ==
    CASE name = "increase_open_count" -> "Open count increased successfully"
      [] name = "decrease_open_count" -> "Open count decreased successfully"
      [] name = "increase_revision_count" -> "Revision count increased successfully"

\* the format check placed before the presence check
CounterChecksSwapped(r, id) ==
    IF ~ObjectIdIsValid(id)
    THEN Finish(r, NoLoc, Reply(400, "Invalid word ID format"))
    ELSE IF id.kind = "missing"
    THEN Finish(r, NoLoc, Reply(400, "Word ID is required"))
    ELSE Await(r, "findByIdAndUpdate", NoLoc)

\* the handler up to its await: the two input checks, in the code's order
CounterChecks(r, id) ==
    IF id.kind = "missing"
    THEN Finish(r, NoLoc, Reply(400, "Word ID is required"))
    ELSE IF ~ObjectIdIsValid(id)
    THEN Finish(r, NoLoc, Reply(400, "Invalid word ID format"))
    ELSE Await(r, "findByIdAndUpdate", NoLoc)

CounterMutator(r, name) ==
    \E id \in IdInputs :
        /\ Accept(r, [NoReq EXCEPT !.op = name, !.id = id], MaxCalls)
        /\ CounterChecks(r, id)
        /\ UNCHANGED <<store, created, clock, okCount, job, env>>

IncreaseOpenCount(r) == CounterMutator(r, "increase_open_count")
DecreaseOpenCount(r) == CounterMutator(r, "decrease_open_count")
IncreaseRevisionCount(r) == CounterMutator(r, "increase_revision_count")

\* the response data of a counter mutator, read from the updated document
CounterReply(name, updatedWord) ==
    [Reply(200, SuccessMessage(name)) EXCEPT
        !.wordId = updatedWord._id,
        !.word = updatedWord.word,
        !.no_of_times_opened = updatedWord.no_of_times_opened,
        !.no_of_times_revised =
            IF name = "increase_revision_count"
            THEN updatedWord.no_of_times_revised ELSE 0]

\* the store runs findByIdAndUpdate and the handler resumes
FindByIdAndUpdate(r) ==
    /\ pc[r] = "findByIdAndUpdate"
    /\ LET id == req[r].id
           name == req[r].op
           after == findByIdAndUpdate(store, id.oid, UpdateOf(name))
       IN  IF id.kind = "uncastable"
           THEN \* CastError, caught
                /\ Finish(r, loc[r], Reply(400, "Invalid word ID format"))
                /\ UNCHANGED <<store, okCount>>
           ELSE IF id.oid \notin DOMAIN store
           THEN /\ Finish(r, loc[r], Reply(404, "Word not found"))
                /\ store' = after
                /\ UNCHANGED okCount
           ELSE /\ Finish(r, loc[r],
                        CounterReply(name, ReturnedDocument(store, after, id.oid)))
                /\ store' = after
                /\ okCount' = [okCount EXCEPT ![id.oid][name] = @ + 1]
    /\ UNCHANGED <<created, clock, req, started, alone, job, env>>

-----------------------------------------------------------------------------
(* POST /api/v1/postWords *)

\* documents still to be written by the postWords calls in flight
RECURSIVE Pending(_)
Pending(S) ==
    IF S = {} THEN 0
    ELSE LET r == CHOOSE x \in S : TRUE
         IN  (IF InFlight(r) /\ req[r].op = "postWords" THEN Len(req[r].words) ELSE 0)
                 + Pending(S \ {r})

\* the validation without its length test
PostWordsChecksNoLength(r, isArray, words) ==
    IF ~isArray
    THEN Finish(r, NoLoc, Reply(400, "Please provide an array of words."))
    ELSE IF \E i \in 1..Len(words) : ~words[i].hasWord
    THEN Finish(r, NoLoc, Reply(500, "Failed to add words"))
    ELSE Await(r, "find", [NoLoc EXCEPT !.wordNamesLower = LowerNames(words)])

\* the handler up to its first await
PostWordsChecks(r, isArray, words) ==
    IF ~isArray \/ Len(words) = 0
    THEN Finish(r, NoLoc, Reply(400, "Please provide an array of words."))
    ELSE IF \E i \in 1..Len(words) : ~words[i].hasWord
    THEN \* w.word.toLowerCase() throws a TypeError, caught
         Finish(r, NoLoc, Reply(500, "Failed to add words"))
    ELSE LET wordNamesLower == LowerNames(words)
         IN  IF \E i \in 1..Len(words) : ~RegExpCompiles(wordNamesLower[i])
             THEN \* new RegExp throws a SyntaxError, caught
                  Finish(r, NoLoc, Reply(500, "Failed to add words"))
             ELSE Await(r, "find", [NoLoc EXCEPT !.wordNamesLower = wordNamesLower])

PostWords(r) ==
    \E isArray \in BOOLEAN, words \in Batches :
        /\ isArray \/ words = <<>>
        /\ Len(store) + Pending(Reqs) + Len(words) <= MaxRecords
        /\ Accept(r, [NoReq EXCEPT !.op = "postWords", !.isArray = isArray, !.words = words],
                  MaxRequests)
        /\ PostWordsChecks(r, isArray, words)
        /\ UNCHANGED <<store, created, clock, okCount, job, env>>

\* the candidates kept for insertion, given the lowercased names found
UniqueWords(words, existingWordNamesLower) ==
    SelectSeq(words, LAMBDA w : ~Includes(existingWordNamesLower, toLowerCase(w.word)))

\* the store runs the find and the handler resumes up to insertMany
PostWordsFind(r) ==
    /\ pc[r] = "find"
    /\ LET existingWords == findByNames(store, loc[r].wordNamesLower)
           existingWordNamesLower == LowerNames(existingWords)
           uniqueWords == UniqueWords(req[r].words, existingWordNamesLower)
           locals == [loc[r] EXCEPT !.existingWordNamesLower = existingWordNamesLower,
                                    !.uniqueWords = uniqueWords]
       IN  IF Len(uniqueWords) = 0
           THEN Finish(r, locals, Reply(400,
                    "All provided words already exist in the database (case-insensitive check)."))
           ELSE Await(r, "insertMany", locals)
    /\ UNCHANGED <<store, created, clock, req, started, alone, okCount, job, env>>

\* the store runs insertMany and the handler answers
PostWordsInsert(r) ==
    /\ pc[r] = "insertMany"
    /\ LET after == insertMany(store, loc[r].uniqueWords, clock)
           savedWords == SubSeq(after, Len(store) + 1, Len(after))
       IN  /\ store' = after
           /\ created' = created \o savedWords
           /\ Finish(r, loc[r],
                [Reply(201, "words added successfully.") EXCEPT
                    !.addedWords = savedWords,
                    !.skippedWords = loc[r].existingWordNamesLower])
    /\ clock' = clock + 1
    /\ UNCHANGED <<req, started, alone, okCount, job, env>>

-----------------------------------------------------------------------------
(* GET /api/v1/getWordsByType *)

Digits == Chars("0123456789")

IsDigit(c) == \E i \in 1..Len(Digits) : Digits[i] = c

DigitValue(c) == (CHOOSE i \in 1..Len(Digits) : Digits[i] = c) - 1

\* the value of the longest run of digits at the head of s, after acc
RECURSIVE DigitRun(_, _)
DigitRun(s, acc) ==
    IF Len(s) = 0 \/ ~IsDigit(s[1]) THEN acc
    ELSE DigitRun(Tail(s), 10 * acc + DigitValue(s[1]))

RECURSIVE TrimStart(_)
TrimStart(s) == IF Len(s) > 0 /\ s[1] = " " THEN TrimStart(Tail(s)) ELSE s

\* parseInt(text): leading blanks, an optional sign, then digits up to the
\* first other character; NaN when no digit is there (also for undefined)
parseInt(text) ==
    LET t == TrimStart(text)
        signed == Len(t) > 0 /\ t[1] \in {"+", "-"}
        body == IF signed THEN Tail(t) ELSE t
    IN  IF Len(body) = 0 \/ ~IsDigit(body[1])
        THEN [nan |-> TRUE, val |-> 0]
        ELSE [nan |-> FALSE,
              val |-> IF signed /\ t[1] = "-" THEN 0 - DigitRun(body, 0)
                      ELSE DigitRun(body, 0)]

\* n || fallback: NaN and 0 are falsy
OrElse(n, fallback) == IF n.nan \/ n.val = 0 THEN fallback ELSE n.val

DefaultLimit == 20
DefaultPage == 1
MaxLimit == 100

\* an offset one page too far
SkipOffByOne(page, limit) == page * limit

Skip(page, limit) == (page - 1) * limit

\* Math.ceil(totalCount / limit) for totalCount >= 0 and limit >= 1
TotalPages(totalCount, limit) == (totalCount + limit - 1) \div limit

\* the tie-break left ascending whatever the direction of the first key
CriteriaIdAscending(field, dir) ==
    <<[field |-> field, dir |-> dir], [field |-> "_id", dir |-> 1]>>

\* a first key and _id as second key, in the same direction
Criteria(field, dir) == <<[field |-> field, dir |-> dir], [field |-> "_id", dir |-> dir]>>

\* the cases of the switch; the empty criteria stand for its default
SwitchOnType(t) ==
    CASE t = Chars("least_revised") -> Criteria("no_of_times_revised", 1)
      [] t = Chars("most_difficult") -> Criteria("no_of_times_opened", -1)
      [] t = Chars("normal") -> Criteria("no_of_times_revised", 1)
      [] t = Chars("most_revised") -> Criteria("no_of_times_revised", -1)
      [] t = Chars("least_opened") -> Criteria("no_of_times_opened", 1)
      [] t = Chars("newest_first") -> Criteria("createdAt", -1)
      [] t = Chars("oldest_first") -> Criteria("createdAt", 1)
      [] t = Chars("alphabetical") -> Criteria("word", 1)
      [] t = Chars("reverse_alphabetical") -> Criteria("word", -1)
      [] OTHER -> <<>>

\* the switch applied to the token as given
SortCriteriaCaseSensitive(type) == SwitchOnType(type)

\* switch (type.toLowerCase())
SortCriteria(type) == SwitchOnType(toLowerCase(type))

\* the store's comparison of two values of one field
ValueLess(field, x, y) == IF field = "word" THEN StrLess(x, y) ELSE x < y

\* d comes strictly before e under the sort keys, the first key deciding first
RECURSIVE ComesBefore(_, _, _)
ComesBefore(d, e, criteria) ==
    IF Len(criteria) = 0 THEN FALSE
    ELSE LET k == criteria[1]
         IN  IF d[k.field] = e[k.field]
             THEN ComesBefore(d, e, Tail(criteria))
             ELSE IF k.dir = 1
                  THEN ValueLess(k.field, d[k.field], e[k.field])
                  ELSE ValueLess(k.field, e[k.field], d[k.field])

RECURSIVE InsertSorted(_, _, _)
InsertSorted(d, sorted, criteria) ==
    IF Len(sorted) = 0 THEN <<d>>
    ELSE IF ComesBefore(d, sorted[1], criteria) THEN <<d>> \o sorted
    ELSE <<sorted[1]>> \o InsertSorted(d, Tail(sorted), criteria)

\* Word.find().sort(criteria)
RECURSIVE sort(_, _)
sort(docs, criteria) ==
    IF Len(docs) = 0 THEN <<>>
    ELSE InsertSorted(docs[1], sort(Tail(docs), criteria), criteria)

\* .skip(skip).limit(limit)
skipLimit(docs, skip, limit) ==
    SubSeq(docs, skip + 1, IF skip + limit < Len(docs) THEN skip + limit ELSE Len(docs))

\* req.query.limit and req.query.page; the empty text is an absent parameter
LimitInputs ==
    {<<>>, Chars("0"), Chars("1"), Chars("2"), Chars("100"), Chars("101"),
     Chars("2.5"), Chars("x")}

PageInputs == {<<>>, Chars("0"), Chars("2"), Chars("-1")}

TypeInputs ==
    {<<>>, Chars("least_revised"), Chars("most_difficult"), Chars("normal"),
     Chars("most_revised"), Chars("least_opened"), Chars("newest_first"),
     Chars("oldest_first"), Chars("alphabetical"), Chars("reverse_alphabetical"),
     Chars("ALPHABETICAL"), Chars("Most_Difficult"), Chars("bogus")}

\* the handler up to its first await: parsing and the pagination checks
PaginationChecks(r, limit, page, type) ==
    LET locals == [NoLoc EXCEPT !.limit = limit, !.page = page, !.type = type,
                                !.skip = Skip(page, limit)]
    IN  IF limit < 1 \/ limit > MaxLimit
        THEN Finish(r, locals, Reply(400, "Limit must be between 1 and 100"))
        ELSE IF page < 1
        THEN Finish(r, locals, Reply(400, "Page must be greater than 0"))
        ELSE Await(r, "countDocuments", locals)

GetWordsByType(r) ==
    \E limit \in LimitInputs, page \in PageInputs, type \in TypeInputs :
        /\ Accept(r, [NoReq EXCEPT !.op = "getWordsByType", !.limit = limit,
                                   !.page = page, !.type = type],
                  1)
        /\ PaginationChecks(r, OrElse(parseInt(limit), DefaultLimit),
                               OrElse(parseInt(page), DefaultPage),
                               IF type = <<>> THEN Chars("normal") ELSE type)
        /\ UNCHANGED <<store, created, clock, okCount, job, env>>

InvalidTypeMessage ==
    "Invalid type. Supported types: least_revised, most_difficult, normal, most_revised, least_opened, newest_first, oldest_first, alphabetical, reverse_alphabetical"

\* the store counts the documents and the handler resumes up to the find
CountDocuments(r) ==
    /\ pc[r] = "countDocuments"
    /\ LET totalCount == Len(store)
           sortCriteria == SortCriteria(loc[r].type)
           locals == [loc[r] EXCEPT !.totalCount = totalCount,
                                    !.totalPages = TotalPages(totalCount, loc[r].limit),
                                    !.sortCriteria = sortCriteria]
       IN  IF sortCriteria = <<>>
           THEN Finish(r, locals, Reply(400, "Invalid type. Supported types: least_revised, most_difficult, normal, most_revised, least_opened, newest_first, oldest_first, alphabetical, reverse_alphabetical"))
           ELSE Await(r, "findSorted", locals)
    /\ UNCHANGED <<store, created, clock, req, started, alone, okCount, job, env>>

\* the store runs the sorted, paginated find and the handler answers
FindSorted(r) ==
    /\ pc[r] = "findSorted"
    /\ LET words == skipLimit(sort(store, loc[r].sortCriteria), loc[r].skip, loc[r].limit)
       IN  Finish(r, loc[r],
                [Reply(200, "Words fetched successfully") EXCEPT
                    !.totalCount = loc[r].totalCount,
                    !.totalPages = loc[r].totalPages,
                    !.currentPage = loc[r].page,
                    !.limit = loc[r].limit,
                    !.type = loc[r].type,
                    !.words = words])
    /\ UNCHANGED <<store, created, clock, req, started, alone, okCount, job, env>>

\* the list of eight types: "normal" left out
SortingTypesEight ==
    <<Chars("least_revised"), Chars("most_difficult"), Chars("most_revised"),
      Chars("least_opened"), Chars("newest_first"), Chars("oldest_first"),
      Chars("alphabetical"), Chars("reverse_alphabetical")>>

\* the type fields of the sortingTypes array, in its order
SortingTypes ==
    <<Chars("least_revised"), Chars("most_difficult"), Chars("normal"),
      Chars("most_revised"), Chars("least_opened"), Chars("newest_first"),
      Chars("oldest_first"), Chars("alphabetical"), Chars("reverse_alphabetical")>>

\* getWordSortingTypes: no await, the handler answers in the step that
\* receives the request
GetWordSortingTypes(r) ==
    /\ Accept(r, [NoReq EXCEPT !.op = "getWordSortingTypes"], 1)
    /\ Finish(r, NoLoc,
            [Reply(200, "Available word sorting types") EXCEPT
                !.totalTypes = Len(SortingTypes),
                !.sortingTypes = SortingTypes])
    /\ UNCHANGED <<store, created, clock, okCount, job, env>>

-----------------------------------------------------------------------------
(* A store operation that fails rejects its await; every handler's catch   *)
(* answers 500.  An id that does not cast never reaches the store.         *)

FailureMessage(name) ==
    CASE name = "postWords" -> "Failed to add words"
      [] name = "increase_open_count" -> "Failed to increase open count"
      [] name = "decrease_open_count" -> "Failed to decrease open count"
      [] name = "increase_revision_count" -> "Failed to increase revision count"
      [] name = "getWordsByType" -> "Failed to fetch words"
      [] name = "getWords" -> "Failed to fetch words"
      [] name = "words/filter" -> "Failed to fetch filtered words"

\* the rejected await reaches the catch: loc.failures counts the rejections
Caught(r) ==
    Finish(r, [loc[r] EXCEPT !.failures = @ + 1], Reply(500, FailureMessage(req[r].op)))

\* a handler that issues the rejected operation once more
StoreFailsRetry(r) ==
    /\ InFlight(r)
    /\ ~(req[r].op \in CounterOps /\ req[r].id.kind = "uncastable")
    /\ loc[r].failures < 2
    /\ loc' = [loc EXCEPT ![r].failures = @ + 1, ![r].storeOps = @ + 1]
    /\ UNCHANGED <<pc, resp, store, created, clock, req, started, alone, okCount, job, env>>

StoreFails(r) ==
    /\ InFlight(r)
    /\ ~(req[r].op \in CounterOps /\ req[r].id.kind = "uncastable")
    /\ Caught(r)
    /\ UNCHANGED <<store, created, clock, req, started, alone, okCount, job, env>>

-----------------------------------------------------------------------------
(* verifyPassword: the shared-secret check *)

\* process.env.PASSWORD and process.env.TOKEN: each unset or a text
Secrets == {Undefined, String(Chars("a")), String(Chars("b"))}

Envs == [PASSWORD : Secrets, TOKEN : Secrets]

NoEnv == [PASSWORD |-> Undefined, TOKEN |-> Undefined]

\* req.body.password: absent, or a string
PasswordInputs == {Undefined, String(<<>>), String(Chars("a")), String(Chars("b"))}

\* x === y on values that are undefined or strings
StrictEquals(x, y) == x = y

\* JSON.stringify leaves out a property whose value is undefined, so the
\* body carries a token exactly when resp.token is defined
VerifyPassword(r) ==
    \E password \in PasswordInputs :
        /\ Accept(r, [NoReq EXCEPT !.op = "verifyPassword", !.password = password],
                  MaxRequests)
        /\ IF StrictEquals(password, env.PASSWORD) \/ StrictEquals(password, env.TOKEN)
           THEN Finish(r, NoLoc, [Reply(200, "Password is correct") EXCEPT !.token = env.TOKEN])
           ELSE Finish(r, NoLoc, Reply(401, "Password is incorrect"))
        /\ UNCHANGED <<store, created, clock, okCount, job, env>>

-----------------------------------------------------------------------------
(* getWords: the newest-first page, without validation of limit and page *)

GetWordsDefaultLimit == 10

GetWords(r) ==
    \E limit \in LimitInputs, page \in PageInputs :
        /\ Accept(r, [NoReq EXCEPT !.op = "getWords", !.limit = limit, !.page = page],
                  MaxRequests)
        /\ LET l == OrElse(parseInt(limit), GetWordsDefaultLimit)
               p == OrElse(parseInt(page), DefaultPage)
           IN  Await(r, "getWordsCount",
                     [NoLoc EXCEPT !.limit = l, !.page = p, !.skip = Skip(p, l)])
        /\ UNCHANGED <<store, created, clock, okCount, job, env>>

\* the store counts the documents and the handler resumes up to the find
GetWordsCount(r) ==
    /\ pc[r] = "getWordsCount"
    /\ Await(r, "getWordsFind",
             [loc[r] EXCEPT !.totalCount = Len(store),
                            !.totalPages = TotalPages(Len(store), loc[r].limit)])
    /\ UNCHANGED <<store, created, clock, req, started, alone, okCount, job, env>>

\* the store runs the find; it rejects a negative skip
GetWordsFind(r) ==
    /\ pc[r] = "getWordsFind"
    /\ IF loc[r].skip < 0
       THEN Caught(r)
       ELSE Finish(r, loc[r],
                [Reply(200, "") EXCEPT
                    !.totalCount = loc[r].totalCount,
                    !.totalPages = loc[r].totalPages,
                    !.currentPage = loc[r].page,
                    !.words = skipLimit(sort(store, Criteria("createdAt", -1)),
                                        loc[r].skip, loc[r].limit)])
    /\ UNCHANGED <<store, created, clock, req, started, alone, okCount, job, env>>

-----------------------------------------------------------------------------
(* words/filter: { word: { $regex: word, $options: "i" } } *)

\* req.query.word; the empty text is an absent parameter
FilterInputs == {<<>>, Chars("a"), Chars("A+"), Chars("."), Chars("+")}

\* an unanchored pattern matches some substring of s
RegExpSearch(pattern, s) ==
    \E a \in 1..(Len(s) + 1) : \E b \in (a - 1)..Len(s) :
        RegExpTest(pattern, SubSeq(s, a, b))

FilterWords(r) ==
    \E word \in FilterInputs :
        /\ Accept(r, [NoReq EXCEPT !.op = "words/filter", !.word = word], MaxRequests)
        /\ Await(r, "filterFind", NoLoc)
        /\ UNCHANGED <<store, created, clock, okCount, job, env>>

\* the store runs the find; it rejects a pattern that does not compile
FilterFind(r) ==
    /\ pc[r] = "filterFind"
    /\ LET word == req[r].word
           words == IF word = <<>> THEN store
                    ELSE SelectSeq(store, LAMBDA d : RegExpSearch(word, d.word))
       IN  IF ~RegExpCompiles(word)
           THEN Caught(r)
           ELSE Finish(r, loc[r],
                    [Reply(200, "") EXCEPT !.count = Len(words), !.words = words])
    /\ UNCHANGED <<store, created, clock, req, started, alone, okCount, job, env>>

-----------------------------------------------------------------------------
(* cleanAndConvertJsonString: the parser of the AI response.  The texts of  *)
(* the model hold no number and no escape sequence.                        *)

WhiteSpace == {" ", "\n", "\t", "\r"}

\* the first position at or after i that holds no white space
RECURSIVE SkipWhite(_, _)
SkipWhite(s, i) ==
    IF i <= Len(s) /\ s[i] \in WhiteSpace THEN SkipWhite(s, i + 1) ELSE i

\* the last position at or before i that holds no white space
RECURSIVE LastBlack(_, _)
LastBlack(s, i) ==
    IF i >= 1 /\ s[i] \in WhiteSpace THEN LastBlack(s, i - 1) ELSE i

\* String.prototype.trim
trim(s) == SubSeq(s, SkipWhite(s, 1), LastBlack(s, Len(s)))

\* a code fence is three backticks; a backtick, which no string of this
\* language can hold, is written as an apostrophe throughout
Fence == Chars("'''")
JsonFence == Fence \o Chars("json")

StartsWithNoCase(s, p) ==
    /\ Len(s) >= Len(p)
    /\ \A i \in 1..Len(p) : LowerChar(s[i]) = LowerChar(p[i])

EndsWith(s, p) ==
    /\ Len(s) >= Len(p)
    /\ SubSeq(s, Len(s) - Len(p) + 1, Len(s)) = p

\* .replace(/^<fence>json\s*/i, "")
StripLeadingFence(s) ==
    IF StartsWithNoCase(s, JsonFence)
    THEN SubSeq(s, SkipWhite(s, Len(JsonFence) + 1), Len(s))
    ELSE s

\* .replace(/<fence>$/i, "")
StripTrailingFence(s) ==
    IF EndsWith(s, Fence)
    THEN SubSeq(s, 1, Len(s) - Len(Fence))
    ELSE s

\* the cleanup without its first trim
CleanedStringNoFirstTrim(text) == trim(StripTrailingFence(StripLeadingFence(text)))

\* cleanedString
CleanedString(text) == trim(StripTrailingFence(StripLeadingFence(trim(text))))

\* JSON values: a string, an array of values, an object of members, a literal
Str(s) == [t |-> "str", s |-> s, items |-> <<>>]
Arr(items) == [t |-> "arr", s |-> <<>>, items |-> items]
Obj(members) == [t |-> "obj", s |-> <<>>, items |-> members]
Member(key, value) == [t |-> "member", s |-> key, items |-> <<value>>]
Lit(name) == [t |-> "lit", s |-> name, items |-> <<>>]

SyntaxError == [ok |-> FALSE, v |-> Lit(<<>>), i |-> 0]

Parsed(v, i) == [ok |-> TRUE, v |-> v, i |-> i]

\* the position of the quote that closes a string opened before i, 0 if none
RECURSIVE ClosingQuote(_, _)
ClosingQuote(s, i) ==
    IF i > Len(s) \/ s[i] \in {"\n", "\t", "\r"} THEN 0
    ELSE IF s[i] = "\"" THEN i
    ELSE ClosingQuote(s, i + 1)

\* a string whose opening quote is at i
ParseString(s, i) ==
    LET j == ClosingQuote(s, i + 1)
    IN  IF j = 0 THEN SyntaxError ELSE Parsed(Str(SubSeq(s, i + 1, j - 1)), j + 1)

ParseLiteral(s, i) ==
    LET Is(w) == i + Len(w) - 1 <= Len(s) /\ SubSeq(s, i, i + Len(w) - 1) = w
    IN  IF Is(Chars("null")) THEN Parsed(Lit(Chars("null")), i + 4)
        ELSE IF Is(Chars("true")) THEN Parsed(Lit(Chars("true")), i + 4)
        ELSE IF Is(Chars("false")) THEN Parsed(Lit(Chars("false")), i + 5)
        ELSE SyntaxError

RECURSIVE ParseValue(_, _), ParseElements(_, _, _), ParseMembers(_, _, _)

\* the value that starts at the first black position at or after i0
ParseValue(s, i0) ==
    LET i == SkipWhite(s, i0)
    IN  IF i > Len(s) THEN SyntaxError
        ELSE IF s[i] = "\"" THEN ParseString(s, i)
        ELSE IF s[i] = "["
        THEN LET j == SkipWhite(s, i + 1)
             IN  IF j <= Len(s) /\ s[j] = "]" THEN Parsed(Arr(<<>>), j + 1)
                 ELSE ParseElements(s, i + 1, <<>>)
        ELSE IF s[i] = "{"
        THEN LET j == SkipWhite(s, i + 1)
             IN  IF j <= Len(s) /\ s[j] = "}" THEN Parsed(Obj(<<>>), j + 1)
                 ELSE ParseMembers(s, i + 1, <<>>)
        ELSE ParseLiteral(s, i)

\* the rest of an array after acc: a value, then a comma or the bracket
ParseElements(s, i, acc) ==
    LET e == ParseValue(s, i)
        j == SkipWhite(s, e.i)
    IN  IF ~e.ok \/ j > Len(s) THEN SyntaxError
        ELSE IF s[j] = "," THEN ParseElements(s, j + 1, Append(acc, e.v))
        ELSE IF s[j] = "]" THEN Parsed(Arr(Append(acc, e.v)), j + 1)
        ELSE SyntaxError

\* the rest of an object after acc: "key" : value, then a comma or the brace
ParseMembers(s, i, acc) ==
    LET k == SkipWhite(s, i)
    IN  IF k > Len(s) \/ s[k] # "\"" THEN SyntaxError
        ELSE LET key == ParseString(s, k)
                 c == SkipWhite(s, key.i)
             IN  IF ~key.ok \/ c > Len(s) THEN SyntaxError
                 ELSE IF s[c] # ":" THEN SyntaxError
                 ELSE LET e == ParseValue(s, c + 1)
                          j == SkipWhite(s, e.i)
                          members == Append(acc, Member(key.v.s, e.v))
                      IN  IF ~e.ok \/ j > Len(s) THEN SyntaxError
                          ELSE IF s[j] = "," THEN ParseMembers(s, j + 1, members)
                          ELSE IF s[j] = "}" THEN Parsed(Obj(members), j + 1)
                          ELSE SyntaxError

\* a parse that stops at the end of the first value and ignores what follows
JSONParseLenient(text) == ParseValue(text, 1)

\* JSON.parse: one value, then nothing but white space
JSONParse(text) ==
    LET r == ParseValue(text, 1)
    IN  IF r.ok /\ SkipWhite(text, r.i) > Len(text) THEN r ELSE SyntaxError

\* the argument of the parser: a text, or a value that is no text
NoText == [isText |-> FALSE, text |-> <<>>]

TextOf(s) == [isText |-> TRUE, text |-> s]

\* the body of the try block: its value, or the error it throws
TryCleanAndConvert(jsonString) ==
    IF ~jsonString.isText
    THEN [error |-> "TypeError", value |-> <<>>]       \* .trim is not a function
    ELSE LET parsed == JSONParse(CleanedString(jsonString.text))
         IN  IF ~parsed.ok THEN [error |-> "SyntaxError", value |-> <<>>]
             ELSE IF parsed.v.t = "arr" THEN [error |-> "none", value |-> parsed.v.items]
             ELSE [error |-> "none", value |-> <<>>]

\* the function: what it returns, and whether an error leaves it
cleanAndConvertJsonString(jsonString) ==
    LET r == TryCleanAndConvert(jsonString)
    IN  IF r.error = "none" THEN [threw |-> FALSE, value |-> r.value]
        ELSE [threw |-> FALSE, value |-> <<>>]              \* catch: return []

\* responses of a model told to return only a JSON array: white space, an
\* opening fence, a payload, a closing fence, white space
Payloads ==
    {"[{\"word\":\"x\"}]",
     "[ {\"word\" : \"x\"} ,\n {\"word\":\"y\"} ]",
     "[]",
     "{\"word\":\"x\"}",
     "\"x\"",
     "null",
     "not json",
     "[{\"word\":\"x\"}",
     "[{\"word\":\"x\"},]",
     "[{\"word\":\"x\"}] ok"}

ParserTexts ==
    [lead : {"", " \n"},
     open : {"", "'''json\n", "'''JSON ", "'''json", "'''\n"},
     payload : Payloads,
     close : {"", "\n'''", "'''"},
     trail : {"", "\n "}]

NoParserText == [lead |-> "", open |-> "", payload |-> "", close |-> "", trail |-> ""]

JsonStringOf(in) ==
    TextOf(Chars(in.lead) \o Chars(in.open) \o Chars(in.payload)
                \o Chars(in.close) \o Chars(in.trail))

\* the offline pipeline: where it is, what it was given and what it holds
NoJob ==
    [pc |-> "idle", isText |-> FALSE, input |-> NoParserText, jsonString |-> NoText,
     enrichedWords |-> <<>>, threw |-> FALSE,
     invocations |-> 0, calls |-> 0, providerFailed |-> FALSE, response |-> NoText,
     matched |-> "none",
     status |-> 0, allWordsLength |-> 0, i |-> 0, pending |-> <<>>,
     updatedWords |-> <<>>, sinceBatch |-> 0,
     attempts |-> <<>>, outcomes |-> <<>>, waits |-> <<>>]

\* const enrichedWords = cleanAndConvertJsonString(response)
CleanAndConvert ==
    /\ job.pc = "clean"
    /\ LET r == cleanAndConvertJsonString(job.jsonString)
       IN  job' = [job EXCEPT !.pc = "parsed", !.enrichedWords = r.value,
                              !.threw = r.threw]
    /\ UNCHANGED <<store, created, clock, pc, req, loc, resp, started, alone, okCount, env>>

-----------------------------------------------------------------------------
(* talkWithAI: one prompt to the provider, its text back *)

\* a catch block that logs the error and lets the function end normally
CatchAndLog(j) == [j EXCEPT !.pc = "returned", !.response = NoText]

\* catch (error): log, then throw error
Catch(j) == [j EXCEPT !.pc = "threw"]

\* the job calls talkWithAI(prompt): the function obtains the model, calls
\* generateContent once and suspends on its promise
TalkWithAI ==
    /\ job.pc \in {"idle", "returned", "threw"}
    /\ job.invocations < MaxCalls
    /\ job' = [job EXCEPT !.pc = "generateContent",
                          !.invocations = @ + 1,
                          !.calls = 1,
                          !.providerFailed = FALSE,
                          !.response = NoText]
    /\ UNCHANGED <<store, created, clock, pc, req, loc, resp, started, alone, okCount, env>>

\* the provider answers and response.text() yields its text, which is returned
GenerateContentResolves ==
    /\ job.pc = "generateContent"
    /\ \E in \in ParserTexts :
        job' = [job EXCEPT !.pc = "returned", !.response = JsonStringOf(in)]
    /\ UNCHANGED <<store, created, clock, pc, req, loc, resp, started, alone, okCount, env>>

\* the provider call rejects (transport, authentication, rate limit), or
\* response.text() throws on a blocked answer: the catch block runs
GenerateContentRejects ==
    /\ job.pc = "generateContent"
    /\ job' = Catch([job EXCEPT !.providerFailed = TRUE])
    /\ UNCHANGED <<store, created, clock, pc, req, loc, resp, started, alone, okCount, env>>

-----------------------------------------------------------------------------
(* updateWordsWithMnemonics: the update of one enriched word *)

\* enrichedWord.word as the provider returned it: a name in another letter
\* case than the stored one, and a name the collection never holds
EnrichedNames == {Chars("A"), Chars("b")}

\* one turn of the loop over enrichedWords, as the collection sees it; the
\* job notes whether the update found a document
FindOneAndUpdate ==
    /\ \E name \in EnrichedNames :
        /\ store' = findOneAndUpdate(store, name, Chars("m"))
        /\ job' = [job EXCEPT !.matched =
                        IF FirstMatch(store, name) = 0 THEN "no" ELSE "yes"]
    /\ UNCHANGED <<created, clock, pc, req, loc, resp, started, alone, okCount, env>>

-----------------------------------------------------------------------------
(* updateWordsWithMnemonics: the batch loop.  The job record holds the     *)
(* handler's locals (allWords.length, i, the enriched words still to       *)
(* apply, updatedWords, the status answered) and three histories: the      *)
(* loop index of every batch whose AI call was issued, the outcome of      *)
(* every batch that ended, and, for every AI call after the first, the     *)
(* time spent in delay() since the batch before it ended.                  *)

BATCH_SIZE == 30

\* await delay(300000), in milliseconds
DelayMs == 300000

\* the texts the provider returns to the job
JobResponses ==
    {"[{\"word\":\"A\"}]",
     "'''json\n[{\"word\":\"A\"},{\"word\":\"b\"}]\n'''",
     "not json",
     "[null]"}

\* const enrichedWords = cleanAndConvertJsonString(response), per response
EnrichedWordsOf ==
    [text \in JobResponses |-> cleanAndConvertJsonString(TextOf(Chars(text))).value]

\* enrichedWord is null: reading its word property throws a TypeError
IsNull(v) == v.t = "lit" /\ v.s = Chars("null")

\* enrichedWord.word
WordProperty(v) ==
    IF v.t = "obj" /\ \E k \in DOMAIN v.items : v.items[k].s = Chars("word")
    THEN LET k == CHOOSE x \in DOMAIN v.items :
                    /\ v.items[x].s = Chars("word")
                    /\ \A y \in (x + 1)..Len(v.items) : v.items[y].s # Chars("word")
         IN  IF v.items[k].items[1].t = "str" THEN String(v.items[k].items[1].s)
             ELSE Undefined
    ELSE Undefined

\* a value placed in a template literal
TemplateText(x) == IF x.defined THEN x.text ELSE Chars("undefined")

\* the loop body up to await talkWithAI(prompt) for the batch at j.i
IssueBatch(j) ==
    [j EXCEPT !.pc = "jobAI",
              !.attempts = Append(@, j.i),
              !.waits = IF j.i = 0 THEN @ ELSE Append(@, j.sinceBatch)]

\* i += BATCH_SIZE and the loop test; after the loop the summary is answered
NextBatch(j) ==
    LET k == [j EXCEPT !.i = @ + BATCH_SIZE]
    IN  IF k.i < k.allWordsLength THEN IssueBatch(k)
        ELSE [k EXCEPT !.pc = "jobDone", !.status = 200]

\* a catch that lets the error reach the handler's outer catch
CatchBatchAbort(j, why) ==
    [j EXCEPT !.outcomes = Append(@, why), !.pending = <<>>, !.sinceBatch = 0,
              !.pc = "jobDone", !.status = 500]

\* catch (error) of the batch: log, continue with the next batch
CatchBatch(j, why) ==
    NextBatch([j EXCEPT !.outcomes = Append(@, why), !.pending = <<>>, !.sinceBatch = 0])

\* the end of the try block: the delay, unless this was the last batch
EndOfTry(j) ==
    LET k == [j EXCEPT !.outcomes = Append(@, "ok"), !.sinceBatch = 0]
    IN  IF k.i + BATCH_SIZE < k.allWordsLength THEN [k EXCEPT !.pc = "jobDelay"]
        ELSE NextBatch(k)

\* the for loop over enrichedWords up to its next await
NextUpdate(j) ==
    IF j.pending = <<>> THEN EndOfTry(j)
    ELSE IF IsNull(j.pending[1]) THEN CatchBatch(j, "TypeError")
    ELSE IF ~RegExpCompiles(TemplateText(WordProperty(j.pending[1])))
    THEN CatchBatch(j, "SyntaxError")
    ELSE [j EXCEPT !.pc = "jobUpdate"]

\* the request arrives: await Word.find({})
UpdateWordsWithMnemonics ==
    /\ job.pc = "idle"
    /\ job' = [job EXCEPT !.pc = "jobFind"]
    /\ UNCHANGED <<store, created, clock, pc, req, loc, resp, started, alone, okCount, env>>

\* the find resolves: 404 on an empty collection, else the first batch
JobFind ==
    /\ job.pc = "jobFind"
    /\ job' = IF Len(store) = 0
              THEN [job EXCEPT !.pc = "jobDone", !.status = 404]
              ELSE IssueBatch([job EXCEPT !.allWordsLength = Len(store), !.i = 0])
    /\ UNCHANGED <<store, created, clock, pc, req, loc, resp, started, alone, okCount, env>>

\* the find rejects: the outer catch answers 500
JobFindRejects ==
    /\ job.pc = "jobFind"
    /\ job' = [job EXCEPT !.pc = "jobDone", !.status = 500]
    /\ UNCHANGED <<store, created, clock, pc, req, loc, resp, started, alone, okCount, env>>

\* talkWithAI returns the provider's text; it is parsed and the loop over
\* the enriched words starts
JobGenerateContentResolves ==
    /\ job.pc = "jobAI"
    /\ \E text \in JobResponses :
        job' = NextUpdate([job EXCEPT !.pending = EnrichedWordsOf[text]])
    /\ UNCHANGED <<store, created, clock, pc, req, loc, resp, started, alone, okCount, env>>

\* talkWithAI rethrows the provider's error
JobGenerateContentRejects ==
    /\ job.pc = "jobAI"
    /\ job' = CatchBatch(job, "aiError")
    /\ UNCHANGED <<store, created, clock, pc, req, loc, resp, started, alone, okCount, env>>

\* findOneAndUpdate resolves; the word is pushed and the loop goes on
JobUpdateResolves ==
    /\ job.pc = "jobUpdate"
    /\ LET word == WordProperty(job.pending[1])
       IN  /\ store' = findOneAndUpdate(store, TemplateText(word), Chars("m"))
           /\ job' = NextUpdate([job EXCEPT !.pending = Tail(@),
                                            !.updatedWords = Append(@, word)])
    /\ UNCHANGED <<created, clock, pc, req, loc, resp, started, alone, okCount, env>>

\* findOneAndUpdate rejects
JobUpdateRejects ==
    /\ job.pc = "jobUpdate"
    /\ job' = CatchBatch(job, "updateError")
    /\ UNCHANGED <<store, created, clock, pc, req, loc, resp, started, alone, okCount, env>>

\* the timer of delay() fires
JobDelayElapses ==
    /\ job.pc = "jobDelay"
    /\ job' = NextBatch([job EXCEPT !.sinceBatch = @ + DelayMs])
    /\ UNCHANGED <<store, created, clock, pc, req, loc, resp, started, alone, okCount, env>>

-----------------------------------------------------------------------------
(* Specifications.  The server starts on whatever the collection holds.    *)

Quiescent ==
    /\ clock = 1
    /\ pc = [r \in Reqs |-> "idle"]
    /\ req = [r \in Reqs |-> NoReq]
    /\ loc = [r \in Reqs |-> NoLoc]
    /\ resp = [r \in Reqs |-> NoResp]
    /\ started = 0
    /\ alone = [r \in Reqs |-> TRUE]
    /\ okCount = [i \in Ids |-> [n \in CounterOps |-> 0]]
    /\ job = NoJob

\* no request received, no secret configured
Idle == Quiescent /\ env = NoEnv

\* ingestion: concurrent postWords calls on a collection that starts empty
Init ==
    /\ store = <<>>
    /\ created = store
    /\ Idle

Next ==
    \E r \in Reqs :
        \/ PostWords(r)
        \/ PostWordsFind(r)
        \/ PostWordsInsert(r)
        \/ StoreFails(r)

Spec == Init /\ [][Next]_vars

\* two documents ingested earlier, one at each schema revision's default
\* open count
CounterSeed ==
    <<[_id |-> 1, word |-> Chars("a"), no_of_times_opened |-> DefaultOpened,
       no_of_times_revised |-> DefaultRevised, mnemonic |-> <<>>, createdAt |-> 0],
      [_id |-> 2, word |-> Chars("A"), no_of_times_opened |-> 0,
       no_of_times_revised |-> DefaultRevised, mnemonic |-> <<>>, createdAt |-> 0]>>

\* counter mutators: concurrent calls on a seeded collection
InitCounters ==
    /\ store = CounterSeed
    /\ created = store
    /\ Idle

NextCounters ==
    \E r \in Reqs :
        \/ IncreaseOpenCount(r)
        \/ DecreaseOpenCount(r)
        \/ IncreaseRevisionCount(r)
        \/ FindByIdAndUpdate(r)
        \/ StoreFails(r)

SpecCounters == InitCounters /\ [][NextCounters]_vars

\* documents of a collection built by earlier ingestion and counter calls:
\* equal words, equal counters and equal creation times all occur
QueryDocs ==
    {[word |-> Chars("a"), no_of_times_opened |-> 5, no_of_times_revised |-> 0],
     [word |-> Chars("A"), no_of_times_opened |-> 5, no_of_times_revised |-> 1],
     [word |-> Chars("a+"), no_of_times_opened |-> 4, no_of_times_revised |-> 1]}

\* documents are inserted two to a batch: ids 1, 2 share a creation time, ...
QuerySeeds ==
    {[i \in DOMAIN ds |->
        [_id |-> i, word |-> ds[i].word,
         no_of_times_opened |-> ds[i].no_of_times_opened,
         no_of_times_revised |-> ds[i].no_of_times_revised,
         mnemonic |-> <<>>,
         createdAt |-> (i + 1) \div 2]] :
     ds \in UNION {[1..n -> QueryDocs] : n \in 0..MaxRecords}}

QueryReqs == {"r1"}

\* sorted listing: one getWordsByType or getWordSortingTypes call on a seeded,
\* unchanging collection
\* (the handler keeps nothing from one call to the next)
InitQuery ==
    /\ store \in QuerySeeds
    /\ created = store
    /\ Idle

NextQuery ==
    \E r \in QueryReqs :
        \/ GetWordsByType(r)
        \/ CountDocuments(r)
        \/ FindSorted(r)
        \/ StoreFails(r)
        \/ GetWordSortingTypes(r)

SpecQuery == InitQuery /\ [][NextQuery]_vars

\* the response parser applied to one text, or to a value that is no text
InitParser ==
    /\ store = <<>>
    /\ created = store
    /\ clock = 1
    /\ pc = [r \in Reqs |-> "idle"]
    /\ req = [r \in Reqs |-> NoReq]
    /\ loc = [r \in Reqs |-> NoLoc]
    /\ resp = [r \in Reqs |-> NoResp]
    /\ started = 0
    /\ alone = [r \in Reqs |-> TRUE]
    /\ okCount = [i \in Ids |-> [n \in CounterOps |-> 0]]
    /\ env = NoEnv
    /\ \/ \E in \in ParserTexts :
            job = [NoJob EXCEPT !.pc = "clean", !.isText = TRUE, !.input = in,
                                !.jsonString = JsonStringOf(in)]
       \/ job = [NoJob EXCEPT !.pc = "clean"]

NextParser == CleanAndConvert

SpecParser == InitParser /\ [][NextParser]_vars

\* the AI client called by the offline job, one call after the other
InitAI ==
    /\ store = <<>>
    /\ created = store
    /\ Idle

NextAI ==
    \/ TalkWithAI
    \/ GenerateContentResolves
    \/ GenerateContentRejects

SpecAI == InitAI /\ [][NextAI]_vars

\* every operation that writes to the collection, concurrently, on a
\* collection that starts empty: MaxRequests requests in all, and the job's
\* updates at any moment
NextLifecycle ==
    /\ \/ \E r \in Reqs :
            \/ PostWords(r)
            \/ PostWordsFind(r)
            \/ PostWordsInsert(r)
            \/ IncreaseOpenCount(r)
            \/ DecreaseOpenCount(r)
            \/ IncreaseRevisionCount(r)
            \/ FindByIdAndUpdate(r)
            \/ StoreFails(r)
       \/ FindOneAndUpdate
    /\ started' <= MaxRequests

SpecLifecycle == Init /\ [][NextLifecycle]_vars

\* collections of the job: none, one document, and up to MaxBatches full
\* batches with or without one document more
JobSizes ==
    {0, 1, MaxBatches * BATCH_SIZE}
        \cup {k * BATCH_SIZE + d : k \in 1..(MaxBatches - 1), d \in {0, 1}}

JobSeed(n) ==
    [i \in 1..n |->
        [_id |-> i, word |-> IF i % 2 = 1 THEN Chars("a") ELSE Chars("c"),
         no_of_times_opened |-> DefaultOpened, no_of_times_revised |-> DefaultRevised,
         mnemonic |-> <<>>, createdAt |-> 0]]

\* one run of the offline enrichment job on a seeded collection
InitJob ==
    /\ store \in {JobSeed(n) : n \in JobSizes}
    /\ created = store
    /\ Idle

NextJob ==
    \/ UpdateWordsWithMnemonics
    \/ JobFind
    \/ JobFindRejects
    \/ JobGenerateContentResolves
    \/ JobGenerateContentRejects
    \/ JobUpdateResolves
    \/ JobUpdateRejects
    \/ JobDelayElapses

SpecJob == InitJob /\ [][NextJob]_vars

\* every awaited promise of the job settles: the provider call and the store
\* operations resolve or reject, the timer fires
SpecJobFair == SpecJob /\ WF_vars(NextJob)

\* the shared-secret check under every configuration of the two secrets
InitPassword ==
    /\ store = <<>>
    /\ created = store
    /\ Quiescent
    /\ env \in Envs

NextPassword == \E r \in Reqs : VerifyPassword(r)

SpecPassword == InitPassword /\ [][NextPassword]_vars

\* the request path: every handler that awaits the store, one request at a
\* time on a seeded collection, any awaited operation may be rejected
NextRequestPath ==
    /\ \E r \in QueryReqs :
            \/ PostWords(r) \/ PostWordsFind(r) \/ PostWordsInsert(r)
            \/ IncreaseOpenCount(r) \/ DecreaseOpenCount(r) \/ IncreaseRevisionCount(r)
            \/ FindByIdAndUpdate(r)
            \/ GetWordsByType(r) \/ CountDocuments(r) \/ FindSorted(r)
            \/ GetWords(r) \/ GetWordsCount(r) \/ GetWordsFind(r)
            \/ FilterWords(r) \/ FilterFind(r)
            \/ StoreFails(r)
    /\ started' <= MaxRequests

SpecRequestPath == InitCounters /\ [][NextRequestPath]_vars

-----------------------------------------------------------------------------
(* Properties *)

\* slot r's handler sends its response in this step
Completes(r) == pc'[r] = "done" /\ (pc[r] # "done" \/ req'[r].n # req[r].n)

Answered(r, name) == pc[r] = "done" /\ req[r].op = name

\* C1: whatever the interleaving of the calls on a record, its open count is
\* the value it entered the collection with, plus the number of successful
\* increase_open_count calls, minus the number of successful
\* decrease_open_count calls: no update is lost.
C1_NoLostUpdate ==
    \A i \in DOMAIN store :
        store[i].no_of_times_opened =
            created[i].no_of_times_opened
                + okCount[i]["increase_open_count"]
                - okCount[i]["decrease_open_count"]

\* an increase and a decrease of record 1 that overlapped, both answered 200
C1_Witness ==
    /\ Answered("r1", "increase_open_count") /\ resp["r1"].status = 200
    /\ Answered("r2", "decrease_open_count") /\ resp["r2"].status = 200
    /\ req["r1"].id.oid = 1 /\ req["r2"].id.oid = 1
    /\ ~alone["r1"] /\ ~alone["r2"]
    /\ okCount[1]["increase_open_count"] = 2

\* C10: a counter mutator answers 400 "Word ID is required" when no id is
\* given, else 400 "Invalid word ID format" when the id is not a well-formed
\* identifier, else 404 when the store holds no record of that id (and the
\* store answered); in each of these cases the step that answers leaves
\* the collection as it was.
C10_FailureOrder ==
    [][\A r \in Reqs :
        (Completes(r) /\ req'[r].op \in CounterOps) =>
            LET id == req'[r].id
                a == resp'[r]
            IN  /\ id.kind = "missing" =>
                    a.status = 400 /\ a.message = "Word ID is required"
                /\ id.kind \in {"malformed", "uncastable"} =>
                    a.status = 400 /\ a.message = "Invalid word ID format"
                /\ (id.kind = "oid" /\ id.oid \notin DOMAIN store /\ a.status # 500) =>
                    a.status = 404 /\ a.message = "Word not found"
                /\ a.status \in {400, 404} => store' = store]_vars

\* one call answered 404 for an id no record has, another answered 400 for a
\* missing id, and the collection is the seeded one
C10_Witness ==
    /\ pc["r1"] = "done" /\ req["r1"].op \in CounterOps
    /\ req["r1"].id.kind = "oid" /\ resp["r1"].status = 404
    /\ pc["r2"] = "done" /\ req["r2"].op \in CounterOps
    /\ req["r2"].id.kind = "missing" /\ resp["r2"].status = 400
    /\ store = created

-----------------------------------------------------------------------------
(* Properties of ingestion *)

LoweredWords(st) == {toLowerCase(st[i].word) : i \in DOMAIN st}

WellFormedBatch(q) ==
    /\ q.op = "postWords" /\ q.isArray /\ Len(q.words) > 0
    /\ \A i \in DOMAIN q.words : q.words[i].hasWord

\* C2: a postWords call that ran alone and was answered 201 or 400 inserted
\* exactly the candidates whose lowercased word equals no stored record's
\* lowercased word, the collection gained exactly those documents, and every
\* stored name some candidate equals case-insensitively is in skippedWords.
C2_SplitByCaseFoldedName ==
    [][\A r \in Reqs :
        (Completes(r) /\ WellFormedBatch(req'[r]) /\ alone'[r]
            /\ resp'[r].status \in {201, 400}) =>
            LET words == req'[r].words
                expected == SelectSeq(words,
                                LAMBDA w : toLowerCase(w.word) \notin LoweredWords(store))
                added == resp'[r].addedWords
            IN  /\ [i \in 1..Len(added) |-> added[i].word] = [i \in 1..Len(expected) |-> expected[i].word]
                /\ store' = store \o added
                /\ resp'[r].status = 201 =>
                    \A i \in DOMAIN store :
                        (\E k \in DOMAIN words :
                            toLowerCase(words[k].word) = toLowerCase(store[i].word))
                            => Includes(resp'[r].skippedWords, toLowerCase(store[i].word))]_vars

\* C3: when the find of a postWords call runs on a collection that already
\* holds every candidate's name (compared case-insensitively), the call
\* ends there with 400 AllDuplicates, having issued the find alone, and the
\* collection is as it was.
C3_AllDuplicatesRejected ==
    [][\A r \in Reqs :
        (pc[r] = "find" /\ pc'[r] # "find" /\ resp'[r].status # 500
            /\ \A k \in DOMAIN req[r].words :
                    toLowerCase(req[r].words[k].word) \in LoweredWords(store)) =>
            /\ pc'[r] = "done"
            /\ resp'[r].status = 400
            /\ resp'[r].message =
                "All provided words already exist in the database (case-insensitive check)."
            /\ loc'[r].storeOps = 1
            /\ store' = store]_vars

-----------------------------------------------------------------------------
(* Properties of the sorted listing *)

\* the table of the nine types: first sort field and direction of each
TypeTable ==
    {[type |-> Chars("least_revised"), field |-> "no_of_times_revised", dir |-> 1],
     [type |-> Chars("normal"), field |-> "no_of_times_revised", dir |-> 1],
     [type |-> Chars("most_revised"), field |-> "no_of_times_revised", dir |-> -1],
     [type |-> Chars("most_difficult"), field |-> "no_of_times_opened", dir |-> -1],
     [type |-> Chars("least_opened"), field |-> "no_of_times_opened", dir |-> 1],
     [type |-> Chars("newest_first"), field |-> "createdAt", dir |-> -1],
     [type |-> Chars("oldest_first"), field |-> "createdAt", dir |-> 1],
     [type |-> Chars("alphabetical"), field |-> "word", dir |-> 1],
     [type |-> Chars("reverse_alphabetical"), field |-> "word", dir |-> -1]}

TableTypes == {e.type : e \in TypeTable}

EntryOf(type) == CHOOSE e \in TypeTable : e.type = toLowerCase(type)

\* x is before y in direction dir
InDirection(field, dir, x, y) ==
    IF dir = 1 THEN ValueLess(field, x, y) ELSE ValueLess(field, y, x)

\* d is strictly before e: by the table's field and direction, equal values
\* by _id in that same direction
TableBefore(d, e, entry) ==
    IF d[entry.field] # e[entry.field]
    THEN InDirection(entry.field, entry.dir, d[entry.field], e[entry.field])
    ELSE InDirection("_id", entry.dir, d._id, e._id)

Listing(r) == req[r].op = "getWordsByType"

Listed(r) == Answered(r, "getWordsByType") /\ resp[r].status = 200

\* text of a positive decimal integer
IsPositiveInteger(text) ==
    /\ Len(text) > 0
    /\ \A i \in DOMAIN text : IsDigit(text[i])
    /\ \E i \in DOMAIN text : text[i] # "0"

\* C4: a getWordsByType request whose type is none of the nine tokens is
\* answered 400 and no store operation is issued at any point of it.
C4_UnknownTypeNeverTouchesStore ==
    \A r \in Reqs :
        (Listing(r) /\ req[r].type # <<>> /\ toLowerCase(req[r].type) \notin TableTypes) =>
            /\ loc[r].storeOps = 0
            /\ pc[r] = "done" => resp[r].status = 400

\* C5: a request whose limit is given and is not an integer in 1..100 (its
\* page being acceptable) goes no further than the limit check: it is
\* answered 400 "Limit must be between 1 and 100"; and an accepted request
\* returns at most the requested limit, hence at most 100, records.
C5_LimitOutsideRangeRejected ==
    \A r \in Reqs :
        (Listing(r) /\ req[r].limit # <<>>
            /\ (req[r].page = <<>> \/ IsPositiveInteger(req[r].page))) =>
            IF IsPositiveInteger(req[r].limit) /\ DigitRun(req[r].limit, 0) <= 100
            THEN Listed(r) => Len(resp[r].words) <= DigitRun(req[r].limit, 0)
            ELSE /\ loc[r].storeOps = 0
                 /\ pc[r] = "done" =>
                        /\ resp[r].status = 400
                        /\ resp[r].message = "Limit must be between 1 and 100"

\* C6: a requested page that is not an integer >= 1 is answered 400 "Page
\* must be greater than 0" (when the limit passed its own check), and only
\* requests whose page is >= 1 reach the store.
C6_PageBelowOneRejected ==
    \A r \in Reqs :
        (Listing(r) /\ req[r].page # <<>> /\ ~IsPositiveInteger(req[r].page)) =>
            /\ loc[r].storeOps = 0
            /\ (pc[r] = "done" /\ resp[r].message # "Limit must be between 1 and 100")
                => resp[r].status = 400 /\ resp[r].message = "Page must be greater than 0"

\* C7: for each of the nine types, in any letter case, the find is ordered
\* first by the table's field in the table's direction: the handler's first
\* sort key is that pair, the returned records follow it, and no such
\* token is answered "Invalid type".
C7_TypeTable ==
    \A r \in Reqs :
        (Listing(r) /\ toLowerCase(loc[r].type) \in TableTypes) =>
            LET entry == EntryOf(loc[r].type)
                words == resp[r].words
            IN  /\ resp[r].message # InvalidTypeMessage
                /\ (pc[r] = "findSorted" \/ Listed(r)) =>
                    loc[r].sortCriteria[1] = [field |-> entry.field, dir |-> entry.dir]
                /\ Listed(r) =>
                    \A i \in 1..(Len(words) - 1) :
                        ~InDirection(entry.field, entry.dir,
                                     words[i + 1][entry.field], words[i][entry.field])

\* most_difficult given in mixed case: open counts 5 then 4
C7_Witness ==
    /\ Listed("r1")
    /\ req["r1"].type = Chars("Most_Difficult")
    /\ Len(resp["r1"].words) >= 2
    /\ resp["r1"].words[1].no_of_times_opened > resp["r1"].words[2].no_of_times_opened

\* C8: the order of a listing is total: any two returned records are in the
\* table's order on the first field, and records equal on it are in _id
\* order in the same direction, so the listing of a store is unique.
C8_TieBreakById ==
    \A r \in Reqs :
        Listed(r) =>
            LET entry == EntryOf(loc[r].type)
                words == resp[r].words
            IN  /\ loc[r].sortCriteria[2] = [field |-> "_id", dir |-> entry.dir]
                /\ \A i, j \in DOMAIN words :
                        i < j => TableBefore(words[i], words[j], entry)

\* most_revised: two records revised equally often, the larger _id first
C8_Witness ==
    /\ Listed("r1")
    /\ req["r1"].type = Chars("most_revised")
    /\ Len(resp["r1"].words) >= 2
    /\ resp["r1"].words[1].no_of_times_revised = resp["r1"].words[2].no_of_times_revised
    /\ resp["r1"].words[1]._id > resp["r1"].words[2]._id

\* the number of documents of the collection that come before d
Rank(d, entry) == Cardinality({i \in DOMAIN store : TableBefore(store[i], d, entry)})

\* C9: an accepted listing of an unchanged store returns the records at
\* positions (page-1)*limit .. (page-1)*limit+limit-1 of the sorted
\* collection and nothing else, totalCount is the number of records, and
\* totalPages is the least number of pages of limit records that hold them.
C9_PageOfSortedList ==
    \A r \in Reqs :
        Listed(r) =>
            LET a == resp[r]
                entry == EntryOf(a.type)
                n == Len(store)
                offset == (a.currentPage - 1) * a.limit
                rest == IF n > offset THEN n - offset ELSE 0
            IN  /\ a.limit >= 1 /\ a.currentPage >= 1
                /\ a.totalCount = n
                /\ a.totalPages >= 0
                /\ a.totalPages * a.limit >= n
                /\ (a.totalPages - 1) * a.limit < n
                /\ Len(a.words) = IF rest < a.limit THEN rest ELSE a.limit
                /\ \A k \in DOMAIN a.words :
                        /\ \E i \in DOMAIN store : store[i] = a.words[k]
                        /\ Rank(a.words[k], entry) = offset + k - 1

\* page 2 of a three-record store at limit 2: the third record, 2 pages
C9_Witness ==
    /\ Listed("r1")
    /\ resp["r1"].currentPage = 2 /\ resp["r1"].limit = 2
    /\ Len(store) = 3 /\ Len(resp["r1"].words) = 1
    /\ resp["r1"].totalPages = 2

-----------------------------------------------------------------------------
(* Properties of the counter mutators' responses *)

\* the counter an operation changes, as its response reports it
Reported(name, a) ==
    IF name = "increase_revision_count" THEN a.no_of_times_revised
    ELSE a.no_of_times_opened

C12_NoLowerBound ==
    [][\A r \in Reqs :
        ( /\ pc[r] = "findByIdAndUpdate" /\ Completes(r)
          /\ req[r].op = "decrease_open_count"
          /\ req[r].id.kind = "oid" /\ req[r].id.oid \in DOMAIN store
          /\ resp'[r].status # 500 ) =>
            LET i == req[r].id.oid
            IN  /\ resp'[r].status = 200
                /\ store'[i].no_of_times_opened = store[i].no_of_times_opened - 1
                /\ resp'[r].no_of_times_opened = store[i].no_of_times_opened - 1]_vars

\* record 2 entered at open count 0; a second decrement has just answered -2
C12_Witness ==
    /\ created[2].no_of_times_opened = 0
    /\ \E r \in Reqs :
        /\ Answered(r, "decrease_open_count") /\ resp[r].status = 200
        /\ req[r].id.oid = 2
        /\ resp[r].no_of_times_opened = -2
    /\ store[2].no_of_times_opened = -2
    /\ okCount[2]["decrease_open_count"] = 2

-----------------------------------------------------------------------------
(* Properties of ingestion: rejected requests *)

\* C13: a postWords request whose words value is not an array, or is an empty
\* array, is answered 400 "Please provide an array of words." by a handler
\* that has issued no store operation, and the step that answers leaves the
\* collection as it was.
C13_InvalidInputRejected ==
    [][\A r \in Reqs :
        ( /\ Completes(r) /\ req'[r].op = "postWords"
          /\ (~req'[r].isArray \/ Len(req'[r].words) = 0) ) =>
            /\ resp'[r].status = 400
            /\ resp'[r].message = "Please provide an array of words."
            /\ loc'[r].storeOps = 0
            /\ store' = store]_vars

\* one request without an array and one with an empty array, both answered
C13_Witness ==
    /\ Answered("r1", "postWords") /\ ~req["r1"].isArray
    /\ Answered("r2", "postWords") /\ req["r2"].isArray /\ req["r2"].words = <<>>
    /\ resp["r1"].status = 400 /\ resp["r2"].status = 400
    /\ loc["r1"].storeOps = 0 /\ loc["r2"].storeOps = 0

\* C14: a postWords request answered 400 because every candidate was found
\* in the collection carries, in that response, the names found.
C14_AllDuplicatesCarriesSkipped ==
    [][\A r \in Reqs :
        ( /\ Completes(r) /\ req'[r].op = "postWords"
          /\ pc[r] = "find" /\ resp'[r].status = 400 ) =>
            /\ loc'[r].existingWordNamesLower # <<>>
            /\ resp'[r].skippedWords = loc'[r].existingWordNamesLower]_vars

-----------------------------------------------------------------------------
(* Properties of the set of counter mutators *)

CounterFields == {"no_of_times_opened", "no_of_times_revised"}

\* some exposed counter mutator, run on record i, changes its field f by d
Exposes(i, f, d) ==
    \E name \in CounterOps :
        findByIdAndUpdate(store, i, UpdateOf(name))[i][f] = store[i][f] + d

\* C15 (as claimed): for each of the two counters of every record an exposed
\* operation raises it by 1 and an exposed operation lowers it by 1.
C15_SymmetricCounters ==
    \A i \in DOMAIN store : \A f \in CounterFields :
        Exposes(i, f, 1) /\ Exposes(i, f, -1)

\* C15 (amended): the open count has an exposed operation that raises it by 1
\* and one that lowers it by 1; the revision count has only the one that
\* raises it by 1, so no step ever lowers a record's revision count, and a
\* step that changes it raises it by exactly 1.
C15_RevisionOnlyIncreases ==
    /\ [](\A i \in DOMAIN store :
            /\ Exposes(i, "no_of_times_opened", 1)
            /\ Exposes(i, "no_of_times_opened", -1)
            /\ Exposes(i, "no_of_times_revised", 1)
            /\ ~Exposes(i, "no_of_times_revised", -1))
    /\ [][\A i \in DOMAIN store :
            \/ store'[i].no_of_times_revised = store[i].no_of_times_revised
            \/ store'[i].no_of_times_revised = store[i].no_of_times_revised + 1]_vars

\* record 1 after a successful increase_revision_count and a successful
\* decrease_open_count
C15_Witness ==
    /\ store[1].no_of_times_revised = created[1].no_of_times_revised + 1
    /\ store[1].no_of_times_opened = created[1].no_of_times_opened - 1
    /\ okCount[1]["increase_revision_count"] = 1
    /\ okCount[1]["decrease_open_count"] = 1

-----------------------------------------------------------------------------
(* Properties of the response parser *)

WordObject(w) == Obj(<<Member(Chars("word"), Str(Chars(w)))>>)

\* the payloads of the model that are JSON arrays, and their elements
ArrayPayloads ==
    {"[{\"word\":\"x\"}]", "[ {\"word\" : \"x\"} ,\n {\"word\":\"y\"} ]", "[]"}

ElementsOf(payload) ==
    CASE payload = "[{\"word\":\"x\"}]" -> <<WordObject("x")>>
      [] payload = "[ {\"word\" : \"x\"} ,\n {\"word\":\"y\"} ]" ->
            <<WordObject("x"), WordObject("y")>>
      [] payload = "[]" -> <<>>

TaggedFences == {"'''json\n", "'''JSON ", "'''json"}

ParsedText == job.pc = "parsed" /\ job.isText

\* C17: from a text that is a JSON array between a leading json-tagged fence
\* and a trailing fence, with or without white space around either, the
\* parser returns the array's elements, all of them and in order; from a
\* JSON array without fences (white space around it or not) likewise.
C17_FencedArrayParsed ==
    ( /\ ParsedText
      /\ job.input.payload \in ArrayPayloads
      /\ \/ job.input.open \in TaggedFences /\ job.input.close # ""
         \/ job.input.open = "" /\ job.input.close = "" )
        => job.enrichedWords = ElementsOf(job.input.payload)

\* a two-element array, fenced and tagged, white space on both sides
C17_Witness ==
    /\ ParsedText
    /\ job.input = [lead |-> " \n", open |-> "'''json\n",
                    payload |-> "[ {\"word\" : \"x\"} ,\n {\"word\":\"y\"} ]",
                    close |-> "\n'''", trail |-> "\n "]
    /\ job.enrichedWords = <<WordObject("x"), WordObject("y")>>

\* C18: a JSON array between an untagged leading fence and a trailing fence
\* parses to what the same array parses to behind a json-tagged fence.
C18_UntaggedFenceStripped ==
    ( /\ ParsedText
      /\ job.input.payload \in ArrayPayloads
      /\ job.input.open = "'''\n" /\ job.input.close # "" )
        => job.enrichedWords =
            cleanAndConvertJsonString(
                JsonStringOf([job.input EXCEPT !.open = "'''json\n"])).value

\* C19: the parser always returns, and returns all or nothing: the empty
\* sequence for a value that is no text and for a text whose payload is not a
\* JSON array (not JSON at all, a JSON value of another kind, an array cut
\* short or followed by more text); otherwise either the empty sequence or
\* every element of the array, never some of them.
C19_TotalAllOrNothing ==
    job.pc = "parsed" =>
        /\ ~job.threw
        /\ IF job.isText /\ job.input.payload \in ArrayPayloads
           THEN job.enrichedWords \in {<<>>, ElementsOf(job.input.payload)}
           ELSE job.enrichedWords = <<>>

\* an array followed by more text was handed in and the empty sequence came
\* back, not the array's element
C19_Witness ==
    /\ job.pc = "parsed" /\ job.isText /\ ~job.threw
    /\ job.input.payload = "[{\"word\":\"x\"}] ok"
    /\ job.input.open = "" /\ job.input.close = ""
    /\ job.enrichedWords = <<>>

-----------------------------------------------------------------------------
(* Properties of the AI client *)

\* C20: an invocation of talkWithAI calls the provider exactly once, and when
\* that call fails the invocation ends by throwing: it does not call again and
\* it does not return; it returns only the text of a call that succeeded.
C20_OneCallFailureSurfaced ==
    /\ [](job.pc \in {"generateContent", "returned", "threw"} => job.calls = 1)
    /\ [][(job.pc = "generateContent" /\ job'.pc # "generateContent") =>
            /\ job'.invocations = job.invocations
            /\ job'.providerFailed => job'.pc = "threw"
            /\ job'.pc = "returned" => ~job'.providerFailed /\ job'.response.isText]_vars

\* a second invocation whose provider call failed has thrown, after one call
C20_Witness ==
    /\ job.pc = "threw" /\ job.providerFailed
    /\ job.calls = 1 /\ job.invocations = 2

-----------------------------------------------------------------------------
(* Properties of the records' lifecycle *)

\* C16: whatever the operations and their interleaving, no step removes a
\* record or changes a record's identifier, and a step that adds records is
\* the insertMany step of a postWords call, which answers 201: a counter
\* mutator or an enrichment update that finds no record adds none.
C16_CreatedOnlyByPostWords ==
    [][/\ Len(store') >= Len(store)
       /\ \A i \in DOMAIN store : store'[i]._id = store[i]._id
       /\ Len(store') > Len(store) =>
            \E r \in Reqs :
                /\ pc[r] = "insertMany" /\ req[r].op = "postWords"
                /\ Completes(r) /\ resp'[r].status = 201]_vars

\* a record made by postWords is in the collection, a counter mutator named
\* an identifier the collection does not hold and was answered 404, and an
\* enrichment update matched no record: the collection holds one record
C16_Witness ==
    /\ Len(store) = 1
    /\ Answered("r1", "postWords") /\ resp["r1"].status = 201
    /\ Answered("r2", "increase_open_count") /\ resp["r2"].status = 404
    /\ req["r2"].id.oid = 2
    /\ job.matched = "no"

-----------------------------------------------------------------------------
(* Frame of the counter mutators *)

\* the counter each route is named after
NamedCounter(name) ==
    IF name = "increase_revision_count" THEN "no_of_times_revised"
    ELSE "no_of_times_opened"

\* C30: the step in which a counter mutator answers 200 for record i changes
\* the counter the operation names on record i, and nothing else: every other
\* field of record i (identifier, word, the other counter, enrichment,
\* creation time) and every field of every other record stay as they were,
\* and no record is added or removed.
C30_OnlyNamedCounterChanges ==
    [][\A r \in Reqs :
        (Completes(r) /\ req'[r].op \in CounterOps /\ resp'[r].status = 200) =>
            LET i == req'[r].id.oid
                named == NamedCounter(req'[r].op)
            IN  /\ DOMAIN store' = DOMAIN store
                /\ store'[i][named] # store[i][named]
                /\ \A j \in DOMAIN store : \A f \in DOMAIN store[j] :
                        (j # i \/ f # named) => store'[j][f] = store[j][f]]_vars

\* increase_revision_count has just answered 200 for record 1: its revision
\* count moved, its open count and record 2 did not
C30_Witness ==
    /\ \E r \in Reqs :
        /\ Answered(r, "increase_revision_count") /\ resp[r].status = 200
        /\ req[r].id.oid = 1
    /\ store[1].no_of_times_revised = created[1].no_of_times_revised + 1
    /\ store[1].no_of_times_opened = created[1].no_of_times_opened
    /\ store[2] = created[2]

-----------------------------------------------------------------------------
(* Properties of ingestion: the check and the insert *)

\* two records of st hold the same word up to letter case
SharesFoldedWord(st) ==
    \E i, j \in DOMAIN st : i # j /\ toLowerCase(st[i].word) = toLowerCase(st[j].word)

\* C26: the insert of a postWords call is not tied to its check: the step
\* that runs insertMany writes every candidate the check kept, also when the
\* collection has meanwhile received one of these names from another call,
\* and the collection then holds two records with the same case-folded word.
C26_CheckThenInsertRace ==
    [][\A r \in Reqs :
        (pc[r] = "insertMany" /\ Completes(r) /\ resp'[r].status = 201) =>
            LET kept == loc[r].uniqueWords
            IN  /\ Len(store') = Len(store) + Len(kept)
                /\ \A k \in DOMAIN kept : store'[Len(store) + k].word = kept[k].word
                /\ (\E k \in DOMAIN kept : toLowerCase(kept[k].word) \in LoweredWords(store))
                        => SharesFoldedWord(store')]_vars

\* two overlapping calls, one with "a" and one with "A", on the empty
\* collection: both checks found nothing, both calls answered 201 with
\* nothing skipped, and the collection holds both records
C26_Witness ==
    /\ Answered("r1", "postWords") /\ Answered("r2", "postWords")
    /\ resp["r1"].status = 201 /\ resp["r2"].status = 201
    /\ ~alone["r1"] /\ ~alone["r2"]
    /\ req["r1"].words = <<[hasWord |-> TRUE, word |-> Chars("a")]>>
    /\ req["r2"].words = <<[hasWord |-> TRUE, word |-> Chars("A")]>>
    /\ resp["r1"].skippedWords = <<>> /\ resp["r2"].skippedWords = <<>>
    /\ Len(store) = 2 /\ SharesFoldedWord(store)

\* C27: the insert of a postWords call that overlapped no other call, run on
\* a collection in which no two records share a case-folded word, leaves a
\* collection in which no two records share a case-folded word.
C27_SequentialCallsKeepUnique ==
    [][\A r \in Reqs :
        ( /\ pc[r] = "insertMany" /\ Completes(r) /\ alone[r]
          /\ ~SharesFoldedWord(store) ) => ~SharesFoldedWord(store')]_vars

\* C28: the check of postWords keeps a candidate for insertion exactly when no
\* stored record's word equals the candidate's word up to letter case, and
\* the names it reports as found are lowercased names of the batch.
C28_ExactCaseInsensitiveMatch ==
    [][\A r \in Reqs :
        (pc[r] = "find" /\ pc'[r] # "find" /\ resp'[r].status # 500) =>
            LET words == req[r].words
                batchNames == {toLowerCase(words[k].word) : k \in DOMAIN words}
            IN  /\ loc'[r].uniqueWords =
                    SelectSeq(words, LAMBDA w : toLowerCase(w.word) \notin LoweredWords(store))
                /\ \A k \in DOMAIN loc'[r].existingWordNamesLower :
                        loc'[r].existingWordNamesLower[k] \in batchNames]_vars

\* C29: a postWords request whose array holds an entry without a word is
\* answered 400, and the step that answers leaves the collection as it was.
C29_MissingWordRejectedAs400 ==
    [][\A r \in Reqs :
        ( /\ Completes(r) /\ req'[r].op = "postWords" /\ req'[r].isArray
          /\ \E k \in DOMAIN req'[r].words : ~req'[r].words[k].hasWord ) =>
            /\ resp'[r].status = 400
            /\ store' = store]_vars

-----------------------------------------------------------------------------
(* Properties of the enumeration of the sorting types *)

\* position of the first occurrence of character c in cs, 0 if none
IndexOf(cs, c) ==
    IF \E k \in DOMAIN cs : cs[k] = c
    THEN CHOOSE k \in DOMAIN cs : cs[k] = c /\ \A j \in 1..(k - 1) : cs[j] # c
    ELSE 0

\* the items of a list written "x, y, z"
RECURSIVE SplitOnComma(_)
SplitOnComma(cs) ==
    LET k == IndexOf(cs, ",")
    IN  IF k = 0 THEN {cs}
        ELSE {SubSeq(cs, 1, k - 1)} \cup SplitOnComma(SubSeq(cs, k + 2, Len(cs)))

\* the tokens a failure message lists after its colon
ListedTokens(message) ==
    LET cs == Chars(message)
    IN  SplitOnComma(SubSeq(cs, IndexOf(cs, ":") + 2, Len(cs)))

\* the type tokens of the model, lowercased, with those either handler names
TokenUniverse ==
    {toLowerCase(t) : t \in TypeInputs \ {<<>>}}
        \cup {SortingTypes[k] : k \in DOMAIN SortingTypes}
        \cup ListedTokens(InvalidTypeMessage)

\* C24: the types getWordSortingTypes enumerates are nine distinct tokens,
\* they are the tokens for which the switch of getWordsByType has a case,
\* and they are the tokens the "Invalid type" message lists; a
\* getWordsByType request that passed the pagination checks is answered
\* with that message exactly when its lowercased type is not among them.
C24_EnumerationMatchesAcceptedTypes ==
    \A r \in Reqs :
        /\ Answered(r, "getWordSortingTypes") =>
            LET types == resp[r].sortingTypes
                enumerated == {types[k] : k \in DOMAIN types}
            IN  /\ resp[r].status = 200
                /\ resp[r].totalTypes = 9
                /\ Cardinality(enumerated) = 9
                /\ enumerated = {t \in TokenUniverse : SortCriteria(t) # <<>>}
                /\ enumerated = ListedTokens(InvalidTypeMessage)
        /\ (Answered(r, "getWordsByType") /\ loc[r].storeOps > 0 /\ resp[r].status # 500) =>
            (resp[r].message = InvalidTypeMessage
                <=> toLowerCase(loc[r].type) \notin ListedTokens(InvalidTypeMessage))

\* the enumeration has been answered
C24_Witness ==
    /\ Answered("r1", "getWordSortingTypes")
    /\ Len(resp["r1"].sortingTypes) = 9
    /\ resp["r1"].sortingTypes[3] = Chars("normal")

-----------------------------------------------------------------------------
(* Properties of a failing store operation *)

RequestPathOps == CounterOps \cup {"postWords", "getWords", "words/filter", "getWordsByType"}

\* C23: the step in which an awaited store operation of a request is
\* rejected ends that request with status 500: it is the request's first
\* rejection, no store operation is issued in it or after it, and the
\* collection is left as it was; the response of an ended request is never
\* replaced.
C23_StoreFailureAnsweredOnce ==
    [][\A r \in Reqs :
        /\ (loc'[r].failures > loc[r].failures) =>
            /\ req[r].op \in RequestPathOps
            /\ pc[r] # "done" /\ pc'[r] = "done"
            /\ resp[r].status = 0 /\ resp'[r].status = 500
            /\ loc'[r].failures = 1
            /\ loc'[r].storeOps = loc[r].storeOps
            /\ store' = store
        /\ (pc[r] = "done" /\ req'[r].n = req[r].n) =>
            /\ pc'[r] = "done" /\ resp'[r] = resp[r] /\ loc'[r] = loc[r]]_vars

\* the second store operation of a getWords request was rejected, after one
\* words/filter request was answered
C23_Witness ==
    /\ Answered("r1", "getWords")
    /\ resp["r1"].status = 500
    /\ loc["r1"].failures = 1 /\ loc["r1"].storeOps = 2
    /\ req["r1"].page # Chars("-1")
    /\ started = 2

-----------------------------------------------------------------------------
(* Properties of the shared-secret check *)

\* C25: a verifyPassword request is answered 200 with a token in the body
\* when it supplies a password and that password is the configured PASSWORD
\* or the configured TOKEN, and in every other case, a request without
\* password included, 401 without a token; under every configuration.
C25_TokenOnlyForMatchingPassword ==
    \A r \in Reqs :
        Answered(r, "verifyPassword") =>
            LET password == req[r].password
            IN  IF password.defined /\ (password = env.PASSWORD \/ password = env.TOKEN)
                THEN resp[r].status = 200 /\ resp[r].token.defined
                ELSE resp[r].status = 401 /\ ~resp[r].token.defined

-----------------------------------------------------------------------------
(* Properties of the offline enrichment job *)

\* the number of batches of a collection of n documents
BatchCount(n) == (n + BATCH_SIZE - 1) \div BATCH_SIZE

\* the batches whose AI call was issued are the first ones, each once, in order
AttemptedInOrder ==
    /\ \A k \in DOMAIN job.attempts : job.attempts[k] = (k - 1) * BATCH_SIZE
    /\ Len(job.attempts) <= BatchCount(job.allWordsLength)
    /\ Len(job.outcomes) <= Len(job.attempts)

\* a job that found documents ends on the summary, after all its batches
EndsOnSummary ==
    (job.pc = "jobDone" /\ job.allWordsLength > 0) =>
        /\ job.status = 200
        /\ Len(job.attempts) = BatchCount(job.allWordsLength)
        /\ Len(job.outcomes) = Len(job.attempts)

\* C21: whatever batches fail, by an AI call error or by a store update
\* error, the job issues the AI call of every batch once and in order, ends
\* only after the last batch, and a job that has read a non-empty collection
\* eventually answers 200 with its summary.
C21_FailureIsolatedPerBatch ==
    /\ [](AttemptedInOrder /\ EndsOnSummary)
    /\ (job.allWordsLength > 0) ~> (job.pc = "jobDone" /\ job.status = 200)

\* three batches: the first lost to the AI call, the second to a store
\* update, the third applied; the job answered its summary
C21_Witness ==
    /\ job.pc = "jobDone" /\ job.status = 200
    /\ job.outcomes = <<"aiError", "updateError", "ok">>
    /\ job.attempts = <<0, BATCH_SIZE, 2 * BATCH_SIZE>>
    /\ Len(job.updatedWords) > 0

\* C22: at most one batch is in progress, and every AI call after the first
\* is issued when at least the fixed delay has been spent waiting since the
\* batch before it ended, whatever that batch's outcome.
C22_DelayBetweenConsecutiveBatches ==
    /\ Len(job.attempts) - Len(job.outcomes) \in {0, 1}
    /\ \A k \in DOMAIN job.waits : job.waits[k] >= DelayMs

====
